---- MODULE Spec2Model ----
(***************************************************************************)
(* Hand-gesture control of the 3D globe: the hand tracker's classifier and *)
(* debouncer (src/src/handTracking.ts), the gesture control loop           *)
(* (src/unnamed/part_000, the application entry point) and the globe       *)
(* controls API (src/src/globe.ts).                                        *)
(*                                                                         *)
(* Numbers.  The program computes in IEEE doubles.  Here every real is a   *)
(* fixed-point integer counting units of 1/Scale: 0.5 is Scale \div 2.     *)
(* Products by a constant factor are rounded to the nearest unit          *)
(* (MulRatio), quotients are truncated (Quotient), square roots are        *)
(* rounded down (ISqrt).                                                   *)
(*                                                                         *)
(* Optional values.  null is Null (the empty tuple), a present value v is  *)
(* Some(v) (a one-element tuple), read back with Val.                      *)
(***************************************************************************)
EXTENDS Integers, Sequences, FiniteSets, TLC

VARIABLES
    \* ---- handTracking.ts, closure state of createHandTracker
    state,          \* HandState: gesture, palmCenter, landmarks, pinchDistance
    gestureBuffer,  \* debouncer candidate label
    gestureCount,   \* debouncer consecutive count
    detected,       \* onResults' local `detected` of the last frame (Null on a no-hand frame)
    \* ---- part_000 (main), module state
    prevPalmX, prevPalmY, isGestureActive, smoothRotX, smoothRotY, prevPinchDist,
    \* ---- globe.ts, closure state of createGlobeScene
    autoRotate, targetZoom, rotationX, rotationY,
    targetX, targetY,   \* target position of the globe group
    \* ---- the browser's animation-frame queue
    pendingFrames,  \* requested, not yet run, invocations of gestureControlLoop
    \* ---- history (observations only, never read by an operation's logic)
    rawLabel,       \* raw label of the last landmark frame ("none" for a no-hand frame)
    rawRun,         \* how many consecutive frames, ending at the last one, had raw label rawLabel
    lastLoop,       \* gesture processed by the last control-loop frame ("start" before the first)
    noneRun,        \* consecutive "none" loop frames entered with isGestureActive set (0 once idle)
    activeFrames,   \* number of open/pinch loop frames processed so far
    lastCall,       \* globe controls calls made by the last step, in order
    snapshot,       \* the Hand State is "new" (changed by onResults since the last loop
                    \* frame), "read" (the last loop frame read it for the first time) or
                    \* "reread" (the last loop frame read it again, unchanged)
    camera,         \* "live": the camera feeds the landmark model, or is about to;
                    \* "failed": start() has caught an error and reported status error;
                    \* "stopped": dispose() has stopped the camera and closed the model
    handLost,       \* a result without a hand has arrived since the last loop frame
    trace,          \* SpecScenario only: <<raw label, confirmed gesture>> of each frame so far
    loads,          \* per texture, the closure of its loadTextureWithFallback call: attempt,
                    \* the URL in flight (0: none), and what it has started and called so far
    loadedCount,    \* createGlobeScene: loadedCount
    progressCompleted, \* createGlobeScene: progressCompleted
    timeoutPending, \* the 10 s timeout of createGlobeScene has not fired yet
    reported,       \* the values onProgress has been called with, in order
    initsScheduled, \* 600 ms timers of initGlobe that have not fired yet
    handTrackerInits \* number of initHandTracking calls so far

trackerVars == <<state, gestureBuffer, gestureCount, detected, rawLabel, rawRun, trace,
                 camera>>
motionVars  == <<prevPalmX, prevPalmY, isGestureActive, smoothRotX, smoothRotY, prevPinchDist>>
globeVars   == <<autoRotate, targetZoom, rotationX, rotationY, targetX, targetY>>
loopHist    == <<lastLoop, noneRun, activeFrames, pendingFrames, snapshot, handLost>>
progressVars == <<loadedCount, progressCompleted, reported, initsScheduled>>
loadVars    == <<loads, loadedCount, progressCompleted, timeoutPending, reported,
                 initsScheduled, handTrackerInits>>
vars == <<state, gestureBuffer, gestureCount, detected,
          prevPalmX, prevPalmY, isGestureActive, smoothRotX, smoothRotY, prevPinchDist,
          autoRotate, targetZoom, rotationX, rotationY, targetX, targetY,
          pendingFrames,
          rawLabel, rawRun, lastLoop, noneRun, activeFrames, lastCall, snapshot, handLost, trace,
          camera,
          loads, loadedCount, progressCompleted, timeoutPending, reported,
          initsScheduled, handTrackerInits>>

----------------------------------------------------------------------------
\* Fixed-point arithmetic

Scale == 10 ^ 5

Null == << >>
Some(v) == <<v>>
Val(o) == o[1]

Abs(x) == IF x < 0 THEN -x ELSE x

Max(a, b) == IF a > b THEN a ELSE b

Min(a, b) == IF a < b THEN a ELSE b

\* x * n / d rounded to the nearest unit, halves away from zero (d > 0, n >= 0)
MulRatio(x, n, d) ==
    IF x >= 0 THEN (2 * x * n + d) \div (2 * d)
              ELSE -((2 * (-x) * n + d) \div (2 * d))

\* the first k decimal digits of r / d after the point, as an integer (0 <= r < d)
RECURSIVE DivDigits(_, _, _)
DivDigits(r, d, k) ==
    IF k = 0 THEN 0
    ELSE ((10 * r) \div d) * (10 ^ (k - 1)) + DivDigits((10 * r) % d, d, k - 1)

\* a / b in units of 1/Scale, truncated (a >= 0, b > 0); Scale = 10^5
Quotient(a, b) == (a \div b) * Scale + DivDigits(a % b, b, 5)

\* floor of the square root of n >= 0, by bisection on [lo, hi)
RECURSIVE SqrtBetween(_, _, _)
SqrtBetween(n, lo, hi) ==
    IF hi - lo <= 1 THEN lo
    ELSE LET mid == (lo + hi) \div 2
         IN  IF mid * mid <= n THEN SqrtBetween(n, mid, hi)
                               ELSE SqrtBetween(n, lo, mid)

ISqrt(n) == SqrtBetween(n, 0, 46341)

\* Math.hypot(dx, dy)
Hypot(dx, dy) == ISqrt(dx * dx + dy * dy)

----------------------------------------------------------------------------
\* handTracking.ts

GestureType == {"open", "pinch", "fist", "none"}

GESTURE_THRESHOLD == 2

\* landmark i (0..20) of a landmark set: a record [x, y]
Lm(landmarks, i) == landmarks[i + 1]

isFingerExtended(landmarks, tipIdx, pipIdx) ==
    Lm(landmarks, tipIdx).y < Lm(landmarks, pipIdx).y

handSizeOf(landmarks) ==
    Hypot(Lm(landmarks, 0).x - Lm(landmarks, 9).x, Lm(landmarks, 0).y - Lm(landmarks, 9).y)

thumbUpOf(landmarks) ==
    Abs(Lm(landmarks, 4).x - Lm(landmarks, 0).x) > Abs(Lm(landmarks, 3).x - Lm(landmarks, 0).x)

BoolCount(b) == IF b THEN 1 ELSE 0

fingersUpOf(landmarks) ==
    BoolCount(isFingerExtended(landmarks, 8, 6)) + BoolCount(isFingerExtended(landmarks, 12, 10))
    + BoolCount(isFingerExtended(landmarks, 16, 14)) + BoolCount(isFingerExtended(landmarks, 20, 18))

rawPinchDistOf(landmarks) ==
    Hypot(Lm(landmarks, 4).x - Lm(landmarks, 8).x, Lm(landmarks, 4).y - Lm(landmarks, 8).y)

\* rawPinchDist / handSize (handSize > 0)
normalizedPinchOf(landmarks) ==
    Quotient(rawPinchDistOf(landmarks), handSizeOf(landmarks))

\* detectGesture, but with the pinch rule tested before the fist rule
detectGesture_PinchFirst(landmarks) ==
    LET handSize == handSizeOf(landmarks)
    IN  IF handSize < Scale \div 100
        THEN [gesture |-> "none", pinchDist |-> Scale]
        ELSE LET indexUp   == isFingerExtended(landmarks, 8, 6)
                 thumbUp   == thumbUpOf(landmarks)
                 fingersUp == fingersUpOf(landmarks)
                 normalizedPinch == normalizedPinchOf(landmarks)
             IN  IF normalizedPinch < Scale \div 2 /\ (thumbUp \/ indexUp)
                 THEN [gesture |-> "pinch", pinchDist |-> normalizedPinch]
                 ELSE IF fingersUp <= 1 /\ ~thumbUp
                 THEN [gesture |-> "fist", pinchDist |-> normalizedPinch]
                 ELSE IF fingersUp >= 3
                 THEN [gesture |-> "open", pinchDist |-> normalizedPinch]
                 ELSE [gesture |-> "none", pinchDist |-> normalizedPinch]

\* detectGesture, but with the open rule asking for more than three fingers
detectGesture_OpenNeedsFour(landmarks) ==
    LET handSize == handSizeOf(landmarks)
    IN  IF handSize < Scale \div 100
        THEN [gesture |-> "none", pinchDist |-> Scale]
        ELSE LET indexUp   == isFingerExtended(landmarks, 8, 6)
                 thumbUp   == thumbUpOf(landmarks)
                 fingersUp == fingersUpOf(landmarks)
                 normalizedPinch == normalizedPinchOf(landmarks)
             IN  IF fingersUp <= 1 /\ ~thumbUp
                 THEN [gesture |-> "fist", pinchDist |-> normalizedPinch]
                 ELSE IF normalizedPinch < Scale \div 2 /\ (thumbUp \/ indexUp)
                 THEN [gesture |-> "pinch", pinchDist |-> normalizedPinch]
                 ELSE IF fingersUp > 3
                 THEN [gesture |-> "open", pinchDist |-> normalizedPinch]
                 ELSE [gesture |-> "none", pinchDist |-> normalizedPinch]

\* detectGesture, but with a fist rule that does not look at the thumb
detectGesture_FistIgnoresThumb(landmarks) ==
    LET handSize == handSizeOf(landmarks)
    IN  IF handSize < Scale \div 100
        THEN [gesture |-> "none", pinchDist |-> Scale]
        ELSE LET indexUp   == isFingerExtended(landmarks, 8, 6)
                 thumbUp   == thumbUpOf(landmarks)
                 fingersUp == fingersUpOf(landmarks)
                 normalizedPinch == normalizedPinchOf(landmarks)
             IN  IF fingersUp <= 1
                 THEN [gesture |-> "fist", pinchDist |-> normalizedPinch]
                 ELSE IF normalizedPinch < Scale \div 2 /\ (thumbUp \/ indexUp)
                 THEN [gesture |-> "pinch", pinchDist |-> normalizedPinch]
                 ELSE IF fingersUp >= 3
                 THEN [gesture |-> "open", pinchDist |-> normalizedPinch]
                 ELSE [gesture |-> "none", pinchDist |-> normalizedPinch]

\* detectGesture, but with the degenerate-hand guard at 0.001
detectGesture_SmallerSizeGuard(landmarks) ==
    LET handSize == handSizeOf(landmarks)
    IN  IF handSize < Scale \div 1000
        THEN [gesture |-> "none", pinchDist |-> Scale]
        ELSE LET indexUp   == isFingerExtended(landmarks, 8, 6)
                 thumbUp   == thumbUpOf(landmarks)
                 fingersUp == fingersUpOf(landmarks)
                 normalizedPinch == normalizedPinchOf(landmarks)
             IN  IF fingersUp <= 1 /\ ~thumbUp
                 THEN [gesture |-> "fist", pinchDist |-> normalizedPinch]
                 ELSE IF normalizedPinch < Scale \div 2 /\ (thumbUp \/ indexUp)
                 THEN [gesture |-> "pinch", pinchDist |-> normalizedPinch]
                 ELSE IF fingersUp >= 3
                 THEN [gesture |-> "open", pinchDist |-> normalizedPinch]
                 ELSE [gesture |-> "none", pinchDist |-> normalizedPinch]

\* detectGesture, but with a pinch distance of exactly 0.5 still a pinch
detectGesture_PinchAtLimit(landmarks) ==
    LET handSize == handSizeOf(landmarks)
    IN  IF handSize < Scale \div 100
        THEN [gesture |-> "none", pinchDist |-> Scale]
        ELSE LET indexUp   == isFingerExtended(landmarks, 8, 6)
                 thumbUp   == thumbUpOf(landmarks)
                 fingersUp == fingersUpOf(landmarks)
                 normalizedPinch == normalizedPinchOf(landmarks)
             IN  IF fingersUp <= 1 /\ ~thumbUp
                 THEN [gesture |-> "fist", pinchDist |-> normalizedPinch]
                 ELSE IF normalizedPinch <= Scale \div 2 /\ (thumbUp \/ indexUp)
                 THEN [gesture |-> "pinch", pinchDist |-> normalizedPinch]
                 ELSE IF fingersUp >= 3
                 THEN [gesture |-> "open", pinchDist |-> normalizedPinch]
                 ELSE [gesture |-> "none", pinchDist |-> normalizedPinch]

detectGesture(landmarks) ==
    LET handSize == handSizeOf(landmarks)
    IN  IF handSize < Scale \div 100
        THEN [gesture |-> "none", pinchDist |-> Scale]
        ELSE LET indexUp   == isFingerExtended(landmarks, 8, 6)
                 thumbUp   == thumbUpOf(landmarks)
                 fingersUp == fingersUpOf(landmarks)
                 normalizedPinch == normalizedPinchOf(landmarks)
             IN  IF fingersUp <= 1 /\ ~thumbUp
                 THEN [gesture |-> "fist", pinchDist |-> normalizedPinch]
                 ELSE IF normalizedPinch < Scale \div 2 /\ (thumbUp \/ indexUp)
                 THEN [gesture |-> "pinch", pinchDist |-> normalizedPinch]
                 ELSE IF fingersUp >= 3
                 THEN [gesture |-> "open", pinchDist |-> normalizedPinch]
                 ELSE [gesture |-> "none", pinchDist |-> normalizedPinch]

\* centroid of landmarks 0, 5, 9, 13, 17
palmCenterOf(landmarks) ==
    LET cx == Lm(landmarks, 0).x + Lm(landmarks, 5).x + Lm(landmarks, 9).x
              + Lm(landmarks, 13).x + Lm(landmarks, 17).x
        cy == Lm(landmarks, 0).y + Lm(landmarks, 5).y + Lm(landmarks, 9).y
              + Lm(landmarks, 13).y + Lm(landmarks, 17).y
    IN  <<MulRatio(cx, 1, 5), MulRatio(cy, 1, 5)>>

----------------------------------------------------------------------------
\* Landmark sets delivered by the landmark source (the inputs of onResults)

\* thumb tip position relative to the index tip: coincident, close
\* (normalized 0.335), exactly at the pinch limit (0.5), far (0.901)
PinchOffsets == << [x |-> 0, y |-> 0], [x |-> -6000, y |-> 3000],
                   [x |-> -10000, y |-> 0], [x |-> -15000, y |-> 10000] >>

\* middle-finger base (landmark 9) relative to the wrist: on the wrist (hand
\* size 0), hand size 0.005, hand size exactly 0.01, a full hand (0.2)
PalmOffsets == << [x |-> 0, y |-> 0], [x |-> 300, y |-> -400],
                  [x |-> 600, y |-> -800], [x |-> 0, y |-> -20000] >>

\* A hand with its wrist at (ox, oy), fingers pointing up the image (smaller y).
\* idx, mid, ring, pinky: the finger's tip is above its PIP joint; thumb: the
\* thumb tip is farther from the wrist in x than the thumb IP joint; pinch: an
\* index of PinchOffsets; size: an index of PalmOffsets.
MkHand(ox, oy, idx, mid, ring, pinky, thumb, pinch, size) ==
    LET P(x, y) == [x |-> ox + x, y |-> oy + y]
        indexTip  == IF idx THEN P(-5000, -36000) ELSE P(-4000, -22000)
        thumbTip  == [x |-> indexTip.x + PinchOffsets[pinch].x,
                      y |-> indexTip.y + PinchOffsets[pinch].y]
        thumbIp   == [x |-> IF thumb THEN thumbTip.x + 2000 ELSE thumbTip.x - 2000,
                      y |-> thumbTip.y + 3000]
    IN  << P(0, 0),                                                   \* 0 wrist
           P(-3000, -2000), P(-6000, -5000), thumbIp, thumbTip,       \* 1..4 thumb
           P(-4000, -18000), P(-4500, -26000), P(-4500, -30000), indexTip,  \* 5..8 index
           P(PalmOffsets[size].x, PalmOffsets[size].y),               \* 9 middle MCP
           P(0, -28000), P(0, -32000),
           IF mid THEN P(0, -38000) ELSE P(0, -23000),                \* 10..12 middle
           P(4000, -18000), P(4500, -26000), P(4500, -30000),
           IF ring THEN P(5000, -35000) ELSE P(4000, -22000),         \* 13..16 ring
           P(8000, -15000), P(9000, -21000), P(9000, -24000),
           IF pinky THEN P(10000, -28000) ELSE P(8500, -18000) >>     \* 17..20 pinky

\* which of index, middle, ring, pinky are extended: every count 0..4, with
\* and without the index finger
FingerSets ==
    { <<FALSE, FALSE, FALSE, FALSE>>, <<TRUE, FALSE, FALSE, FALSE>>,
      <<FALSE, TRUE, FALSE, FALSE>>,  <<TRUE, TRUE, FALSE, FALSE>>,
      <<FALSE, TRUE, TRUE, FALSE>>,   <<TRUE, TRUE, TRUE, FALSE>>,
      <<FALSE, TRUE, TRUE, TRUE>>,    <<TRUE, TRUE, TRUE, TRUE>> }

\* every combination of fingers, thumb, pinch width and hand size, at one
\* place in the frame
AllHands ==
    { MkHand(50000, 80000, f[1], f[2], f[3], f[4], t, k, z) :
        f \in FingerSets, t \in BOOLEAN,
        k \in 1..Len(PinchOffsets), z \in 1..Len(PalmOffsets) }

\* hands the loop is driven with: an open hand at three places (a, b within
\* the dead-zone of each other, c far away), two pinches of different width,
\* a fist and a two-finger hand (no gesture)
LoopHands ==
    { MkHand(50000, 80000, TRUE, TRUE, TRUE, TRUE, TRUE, 4, 4),
      MkHand(50100, 80100, TRUE, TRUE, TRUE, TRUE, TRUE, 4, 4),
      MkHand(30000, 90000, TRUE, TRUE, TRUE, TRUE, TRUE, 4, 4),
      MkHand(50000, 80000, TRUE, FALSE, FALSE, FALSE, TRUE, 1, 4),
      MkHand(50000, 80000, TRUE, FALSE, FALSE, FALSE, TRUE, 2, 4),
      MkHand(50000, 80000, FALSE, FALSE, FALSE, FALSE, FALSE, 2, 4),
      MkHand(50000, 80000, TRUE, TRUE, FALSE, FALSE, TRUE, 4, 4) }

\* hands of the decay to idle: an open hand at three places far apart
OpenHands ==
    { MkHand(50000, 80000, TRUE, TRUE, TRUE, TRUE, TRUE, 4, 4),
      MkHand(30000, 90000, TRUE, TRUE, TRUE, TRUE, TRUE, 4, 4),
      MkHand(90000, 45000, TRUE, TRUE, TRUE, TRUE, TRUE, 4, 4) }

\* every landmark set a result can hold
InputHands == AllHands \cup LoopHands \cup OpenHands

\* detectGesture(landmarks) of every landmark set a result can hold, computed
\* once
Classification == [landmarks \in InputHands |-> detectGesture(landmarks)]

----------------------------------------------------------------------------
\* handTracking.ts: the results handler

\* onResults, but counting on when the raw label changes
onResults_CountNotReset(results) ==
    /\ IF results # Null
       THEN \E landmarks \in {Val(results)} : \E d \in {Classification[landmarks]} :
            LET newBuffer == IF d.gesture = gestureBuffer THEN gestureBuffer ELSE d.gesture
                newCount  == gestureCount + 1
            IN  /\ detected' = Some(d)
                /\ gestureBuffer' = newBuffer
                /\ gestureCount' = newCount
                /\ state' = [gesture |-> IF newCount >= GESTURE_THRESHOLD
                                         THEN newBuffer ELSE state.gesture,
                             palmCenter |-> palmCenterOf(landmarks),
                             landmarks |-> landmarks,
                             pinchDistance |-> d.pinchDist]
       ELSE /\ detected' = Null
            /\ UNCHANGED <<gestureBuffer, gestureCount>>
            /\ state' = [gesture |-> "none", palmCenter |-> Null,
                         landmarks |-> Null, pinchDistance |-> Scale]
    /\ LET raw == IF detected' = Null THEN "none" ELSE Val(detected').gesture
       IN  /\ rawLabel' = raw
           /\ rawRun' = IF raw = rawLabel THEN rawRun + 1 ELSE 1
    /\ lastCall' = << >>
    /\ snapshot' = IF state' # state THEN "new" ELSE snapshot
    /\ handLost' = (handLost \/ results = Null)
    /\ UNCHANGED <<motionVars, globeVars, lastLoop, noneRun, activeFrames, pendingFrames>>

\* onResults, but reverting to none while the count is below the threshold
onResults_RevertsToNone(results) ==
    /\ IF results # Null
       THEN \E landmarks \in {Val(results)} : \E d \in {Classification[landmarks]} :
            LET newBuffer == IF d.gesture = gestureBuffer THEN gestureBuffer ELSE d.gesture
                newCount  == IF d.gesture = gestureBuffer THEN gestureCount + 1 ELSE 1
            IN  /\ detected' = Some(d)
                /\ gestureBuffer' = newBuffer
                /\ gestureCount' = newCount
                /\ state' = [gesture |-> IF newCount >= GESTURE_THRESHOLD
                                         THEN newBuffer ELSE "none",
                             palmCenter |-> palmCenterOf(landmarks),
                             landmarks |-> landmarks,
                             pinchDistance |-> d.pinchDist]
       ELSE /\ detected' = Null
            /\ UNCHANGED <<gestureBuffer, gestureCount>>
            /\ state' = [gesture |-> "none", palmCenter |-> Null,
                         landmarks |-> Null, pinchDistance |-> Scale]
    /\ LET raw == IF detected' = Null THEN "none" ELSE Val(detected').gesture
       IN  /\ rawLabel' = raw
           /\ rawRun' = IF raw = rawLabel THEN rawRun + 1 ELSE 1
    /\ lastCall' = << >>
    /\ snapshot' = IF state' # state THEN "new" ELSE snapshot
    /\ handLost' = (handLost \/ results = Null)
    /\ UNCHANGED <<motionVars, globeVars, lastLoop, noneRun, activeFrames, pendingFrames>>

\* onResults, but with the no-hand branch leaving the gesture and pinch distance as they were
onResults_KeepsPinchOnLoss(results) ==
    /\ IF results # Null
       THEN \E landmarks \in {Val(results)} : \E d \in {Classification[landmarks]} :
            LET newBuffer == IF d.gesture = gestureBuffer THEN gestureBuffer ELSE d.gesture
                newCount  == IF d.gesture = gestureBuffer THEN gestureCount + 1 ELSE 1
            IN  /\ detected' = Some(d)
                /\ gestureBuffer' = newBuffer
                /\ gestureCount' = newCount
                /\ state' = [gesture |-> IF newCount >= GESTURE_THRESHOLD
                                         THEN newBuffer ELSE state.gesture,
                             palmCenter |-> palmCenterOf(landmarks),
                             landmarks |-> landmarks,
                             pinchDistance |-> d.pinchDist]
       ELSE /\ detected' = Null
            /\ UNCHANGED <<gestureBuffer, gestureCount>>
            /\ state' = [gesture |-> state.gesture, palmCenter |-> Null,
                         landmarks |-> Null, pinchDistance |-> state.pinchDistance]
    /\ LET raw == IF detected' = Null THEN "none" ELSE Val(detected').gesture
       IN  /\ rawLabel' = raw
           /\ rawRun' = IF raw = rawLabel THEN rawRun + 1 ELSE 1
    /\ lastCall' = << >>
    /\ snapshot' = IF state' # state THEN "new" ELSE snapshot
    /\ handLost' = (handLost \/ results = Null)
    /\ UNCHANGED <<motionVars, globeVars, lastLoop, noneRun, activeFrames, pendingFrames>>

\* The handler registered with hands.onResults.  results is Null when
\* multiHandLandmarks is missing or empty, else Some(landmarks of hand 0).
onResults(results) ==
    /\ IF results # Null
       THEN \E landmarks \in {Val(results)} : \E d \in {Classification[landmarks]} :
            LET newBuffer == IF d.gesture = gestureBuffer THEN gestureBuffer ELSE d.gesture
                newCount  == IF d.gesture = gestureBuffer THEN gestureCount + 1 ELSE 1
            IN  /\ detected' = Some(d)
                /\ gestureBuffer' = newBuffer
                /\ gestureCount' = newCount
                /\ state' = [gesture |-> IF newCount >= GESTURE_THRESHOLD
                                         THEN newBuffer ELSE state.gesture,
                             palmCenter |-> palmCenterOf(landmarks),
                             landmarks |-> landmarks,
                             pinchDistance |-> d.pinchDist]
       ELSE /\ detected' = Null
            /\ UNCHANGED <<gestureBuffer, gestureCount>>
            /\ state' = [gesture |-> "none", palmCenter |-> Null,
                         landmarks |-> Null, pinchDistance |-> Scale]
    /\ LET raw == IF detected' = Null THEN "none" ELSE Val(detected').gesture
       IN  /\ rawLabel' = raw
           /\ rawRun' = IF raw = rawLabel THEN rawRun + 1 ELSE 1
    /\ lastCall' = << >>
    /\ snapshot' = IF state' # state THEN "new" ELSE snapshot
    /\ handLost' = (handLost \/ results = Null)
    /\ UNCHANGED <<motionVars, globeVars, lastLoop, noneRun, activeFrames, pendingFrames>>

----------------------------------------------------------------------------
\* globe.ts: the controls API of createGlobeScene

HalfPi == 157080       \* Math.PI / 2

MinZoom == 180000      \* 1.8

MaxZoom == 800000      \* 8

InitialZoom == 350000  \* 3.5

\* rotateX without the clamp
rotateX_NoClamp(rotX, angle) == rotX + angle

\* rotateX(angle): the new globeGroup.rotation.x
rotateX(rotX, angle) == Max(-HalfPi, Min(HalfPi, rotX + angle))

\* rotateY(angle): the new globeGroup.rotation.y
rotateY(rotY, angle) == rotY + angle

\* setZoom without the upper clamp
setZoom_NoUpperClamp(distance) == Max(MinZoom, distance)

\* setZoom(distance): the new targetZoom
setZoom(distance) == Max(MinZoom, Min(MaxZoom, distance))

getZoom == targetZoom

\* movePosition(dx, dy): the new target position <<targetX, targetY>>
movePosition(dx, dy) == <<targetX + (-dx * 5), targetY + (-dy * 5)>>

resetPosition == <<0, 0>>

----------------------------------------------------------------------------
\* globe.ts: texture loading

Textures == {"earth", "bump", "spec", "clouds"}

TotalTextures == 4     \* totalTextures

UrlCount == 3          \* TEXTURE_SOURCES.length

\* the closure of a loadTextureWithFallback call before its first tryNext();
\* URLs are numbered from 1, so urls[attempt] is URL attempt + 1
NewLoad ==
    [attempt |-> 0, inflight |-> 0, started |-> << >>, failed |-> {},
     onSuccess |-> 0, onAllFailed |-> 0]

\* tryNext, but giving up with the last URL still untried
tryNext_GivesUpEarly(l) ==
    IF l.attempt >= UrlCount - 1
    THEN [l EXCEPT !.onAllFailed = @ + 1]
    ELSE [l EXCEPT !.attempt = @ + 1,
                   !.inflight = l.attempt + 1,
                   !.started = Append(@, l.attempt + 1)]

\* tryNext of loadTextureWithFallback, on the closure l of one call
tryNext(l) ==
    IF l.attempt >= UrlCount
    THEN [l EXCEPT !.onAllFailed = @ + 1]
    ELSE [l EXCEPT !.attempt = @ + 1,
                   !.inflight = l.attempt + 1,
                   !.started = Append(@, l.attempt + 1)]

\* loadTextureWithFallback: sets attempt to 0 and calls tryNext()
loadTextureWithFallback == tryNext(NewLoad)

\* the onLoad callback of loader.load: onSuccess
loadSucceeded(l) ==
    [l EXCEPT !.inflight = 0, !.onSuccess = @ + 1]

\* the onError callback of loader.load: warns and calls tryNext()
loadFailed(l) ==
    tryNext([l EXCEPT !.inflight = 0, !.failed = @ \cup {l.inflight}])

----------------------------------------------------------------------------
\* part_000 (main): gestureControlLoop, one action per branch of the switch.
\* Every branch reads handTracker.getState(), which returns the tracker's
\* `state` object itself.

MaxActiveFrames == 3   \* open/pinch loop frames explored

MaxNoneRun == 2        \* decaying none loop frames explored when every hand is fed

DeadZone == 200        \* 0.002

PinchNoise == 500      \* 0.005

DecayEpsilon == 10     \* 0.0001

\* the open branch, but rotating by the decayed values inside the dead zone
LoopOpen_RotatesInDeadZone ==
    /\ pendingFrames > 0
    /\ state.gesture = "open"
    /\ activeFrames < MaxActiveFrames
    /\ LET palm == state.palmCenter
           tracked == palm # Null /\ prevPalmX # Null /\ prevPalmY # Null
           dx == palm[1] - Val(prevPalmX)
           dy == palm[2] - Val(prevPalmY)
           moved == tracked /\ (Abs(dx) > DeadZone \/ Abs(dy) > DeadZone)
           newRotY == smoothRotY + MulRatio(-dx * 5 - smoothRotY, 4, 10)
           newRotX == smoothRotX + MulRatio(dy * 5 - smoothRotX, 4, 10)
       IN  /\ autoRotate' = FALSE
           /\ prevPinchDist' = Null
           /\ IF moved
              THEN /\ smoothRotY' = newRotY
                   /\ smoothRotX' = newRotX
                   /\ rotationY' = rotateY(rotationY, newRotY)
                   /\ rotationX' = rotateX(rotationX, newRotX)
                   /\ lastCall' = <<"setAutoRotate", "rotateY", "rotateX">>
              ELSE /\ smoothRotX' = IF tracked THEN MulRatio(smoothRotX, 8, 10) ELSE smoothRotX
                   /\ smoothRotY' = IF tracked THEN MulRatio(smoothRotY, 8, 10) ELSE smoothRotY
                   /\ rotationY' = rotateY(rotationY, smoothRotY')
                   /\ rotationX' = rotateX(rotationX, smoothRotX')
                   /\ lastCall' = <<"setAutoRotate", "rotateY", "rotateX">>
           /\ prevPalmX' = IF palm # Null THEN Some(palm[1]) ELSE prevPalmX
           /\ prevPalmY' = IF palm # Null THEN Some(palm[2]) ELSE prevPalmY
           /\ isGestureActive' = TRUE
    /\ lastLoop' = "open"
    /\ pendingFrames' = pendingFrames - 1 + 1
    /\ snapshot' = IF snapshot = "new" THEN "read" ELSE "reread"
    /\ handLost' = FALSE
    /\ UNCHANGED <<targetX, targetY>>
    /\ noneRun' = 0
    /\ activeFrames' = activeFrames + 1
    /\ UNCHANGED <<targetZoom, trackerVars, loadVars>>

\* the open branch, but with the yaw target dx * 5, not mirrored
LoopOpen_YawNotMirrored ==
    /\ pendingFrames > 0
    /\ state.gesture = "open"
    /\ activeFrames < MaxActiveFrames
    /\ LET palm == state.palmCenter
           tracked == palm # Null /\ prevPalmX # Null /\ prevPalmY # Null
           dx == palm[1] - Val(prevPalmX)
           dy == palm[2] - Val(prevPalmY)
           moved == tracked /\ (Abs(dx) > DeadZone \/ Abs(dy) > DeadZone)
           newRotY == smoothRotY + MulRatio(dx * 5 - smoothRotY, 4, 10)
           newRotX == smoothRotX + MulRatio(dy * 5 - smoothRotX, 4, 10)
       IN  /\ autoRotate' = FALSE
           /\ prevPinchDist' = Null
           /\ IF moved
              THEN /\ smoothRotY' = newRotY
                   /\ smoothRotX' = newRotX
                   /\ rotationY' = rotateY(rotationY, newRotY)
                   /\ rotationX' = rotateX(rotationX, newRotX)
                   /\ lastCall' = <<"setAutoRotate", "rotateY", "rotateX">>
              ELSE /\ smoothRotX' = IF tracked THEN MulRatio(smoothRotX, 8, 10) ELSE smoothRotX
                   /\ smoothRotY' = IF tracked THEN MulRatio(smoothRotY, 8, 10) ELSE smoothRotY
                   /\ UNCHANGED <<rotationX, rotationY>>
                   /\ lastCall' = <<"setAutoRotate">>
           /\ prevPalmX' = IF palm # Null THEN Some(palm[1]) ELSE prevPalmX
           /\ prevPalmY' = IF palm # Null THEN Some(palm[2]) ELSE prevPalmY
           /\ isGestureActive' = TRUE
    /\ lastLoop' = "open"
    /\ pendingFrames' = pendingFrames - 1 + 1
    /\ snapshot' = IF snapshot = "new" THEN "read" ELSE "reread"
    /\ handLost' = FALSE
    /\ UNCHANGED <<targetX, targetY>>
    /\ noneRun' = 0
    /\ activeFrames' = activeFrames + 1
    /\ UNCHANGED <<targetZoom, trackerVars, loadVars>>

\* case 'open'
LoopOpen ==
    /\ pendingFrames > 0
    /\ state.gesture = "open"
    /\ activeFrames < MaxActiveFrames
    /\ LET palm == state.palmCenter
           tracked == palm # Null /\ prevPalmX # Null /\ prevPalmY # Null
           dx == palm[1] - Val(prevPalmX)
           dy == palm[2] - Val(prevPalmY)
           moved == tracked /\ (Abs(dx) > DeadZone \/ Abs(dy) > DeadZone)
           newRotY == smoothRotY + MulRatio(-dx * 5 - smoothRotY, 4, 10)
           newRotX == smoothRotX + MulRatio(dy * 5 - smoothRotX, 4, 10)
       IN  /\ autoRotate' = FALSE
           /\ prevPinchDist' = Null
           /\ IF moved
              THEN /\ smoothRotY' = newRotY
                   /\ smoothRotX' = newRotX
                   /\ rotationY' = rotateY(rotationY, newRotY)
                   /\ rotationX' = rotateX(rotationX, newRotX)
                   /\ lastCall' = <<"setAutoRotate", "rotateY", "rotateX">>
              ELSE /\ smoothRotX' = IF tracked THEN MulRatio(smoothRotX, 8, 10) ELSE smoothRotX
                   /\ smoothRotY' = IF tracked THEN MulRatio(smoothRotY, 8, 10) ELSE smoothRotY
                   /\ UNCHANGED <<rotationX, rotationY>>
                   /\ lastCall' = <<"setAutoRotate">>
           /\ prevPalmX' = IF palm # Null THEN Some(palm[1]) ELSE prevPalmX
           /\ prevPalmY' = IF palm # Null THEN Some(palm[2]) ELSE prevPalmY
           /\ isGestureActive' = TRUE
    /\ lastLoop' = "open"
    /\ pendingFrames' = pendingFrames - 1 + 1
    /\ snapshot' = IF snapshot = "new" THEN "read" ELSE "reread"
    /\ handLost' = FALSE
    /\ UNCHANGED <<targetX, targetY>>
    /\ noneRun' = 0
    /\ activeFrames' = activeFrames + 1
    /\ UNCHANGED <<targetZoom, trackerVars, loadVars>>

\* the pinch branch, but returning without requesting the next frame
LoopPinch_NoReschedule ==
    /\ pendingFrames > 0
    /\ state.gesture = "pinch"
    /\ activeFrames < MaxActiveFrames
    /\ LET palm == state.palmCenter
           currentPinchDist == state.pinchDistance
           delta == currentPinchDist - Val(prevPinchDist)
           zooms == prevPinchDist # Null /\ Abs(delta) > PinchNoise
       IN  /\ autoRotate' = FALSE
           /\ IF zooms
              THEN /\ targetZoom' = setZoom(getZoom + delta * 15)
                   /\ lastCall' = <<"setAutoRotate", "getZoom", "setZoom">>
              ELSE /\ UNCHANGED targetZoom
                   /\ lastCall' = <<"setAutoRotate">>
           /\ prevPinchDist' = Some(currentPinchDist)
           /\ prevPalmX' = IF palm # Null THEN Some(palm[1]) ELSE prevPalmX
           /\ prevPalmY' = IF palm # Null THEN Some(palm[2]) ELSE prevPalmY
           /\ isGestureActive' = TRUE
    /\ lastLoop' = "pinch"
    /\ pendingFrames' = pendingFrames - 1
    /\ snapshot' = IF snapshot = "new" THEN "read" ELSE "reread"
    /\ handLost' = FALSE
    /\ UNCHANGED <<targetX, targetY>>
    /\ noneRun' = 0
    /\ activeFrames' = activeFrames + 1
    /\ UNCHANGED <<smoothRotX, smoothRotY, rotationX, rotationY, trackerVars, loadVars>>

\* the pinch branch, but zooming in when the fingers spread
LoopPinch_ZoomInverted ==
    /\ pendingFrames > 0
    /\ state.gesture = "pinch"
    /\ activeFrames < MaxActiveFrames
    /\ LET palm == state.palmCenter
           currentPinchDist == state.pinchDistance
           delta == currentPinchDist - Val(prevPinchDist)
           zooms == prevPinchDist # Null /\ Abs(delta) > PinchNoise
       IN  /\ autoRotate' = FALSE
           /\ IF zooms
              THEN /\ targetZoom' = setZoom(getZoom - delta * 15)
                   /\ lastCall' = <<"setAutoRotate", "getZoom", "setZoom">>
              ELSE /\ UNCHANGED targetZoom
                   /\ lastCall' = <<"setAutoRotate">>
           /\ prevPinchDist' = Some(currentPinchDist)
           /\ prevPalmX' = IF palm # Null THEN Some(palm[1]) ELSE prevPalmX
           /\ prevPalmY' = IF palm # Null THEN Some(palm[2]) ELSE prevPalmY
           /\ isGestureActive' = TRUE
    /\ lastLoop' = "pinch"
    /\ pendingFrames' = pendingFrames - 1 + 1
    /\ snapshot' = IF snapshot = "new" THEN "read" ELSE "reread"
    /\ handLost' = FALSE
    /\ UNCHANGED <<targetX, targetY>>
    /\ noneRun' = 0
    /\ activeFrames' = activeFrames + 1
    /\ UNCHANGED <<smoothRotX, smoothRotY, rotationX, rotationY, trackerVars, loadVars>>

\* case 'pinch'
LoopPinch ==
    /\ pendingFrames > 0
    /\ state.gesture = "pinch"
    /\ activeFrames < MaxActiveFrames
    /\ LET palm == state.palmCenter
           currentPinchDist == state.pinchDistance
           delta == currentPinchDist - Val(prevPinchDist)
           zooms == prevPinchDist # Null /\ Abs(delta) > PinchNoise
       IN  /\ autoRotate' = FALSE
           /\ IF zooms
              THEN /\ targetZoom' = setZoom(getZoom + delta * 15)
                   /\ lastCall' = <<"setAutoRotate", "getZoom", "setZoom">>
              ELSE /\ UNCHANGED targetZoom
                   /\ lastCall' = <<"setAutoRotate">>
           /\ prevPinchDist' = Some(currentPinchDist)
           /\ prevPalmX' = IF palm # Null THEN Some(palm[1]) ELSE prevPalmX
           /\ prevPalmY' = IF palm # Null THEN Some(palm[2]) ELSE prevPalmY
           /\ isGestureActive' = TRUE
    /\ lastLoop' = "pinch"
    /\ pendingFrames' = pendingFrames - 1 + 1
    /\ snapshot' = IF snapshot = "new" THEN "read" ELSE "reread"
    /\ handLost' = FALSE
    /\ UNCHANGED <<targetX, targetY>>
    /\ noneRun' = 0
    /\ activeFrames' = activeFrames + 1
    /\ UNCHANGED <<smoothRotX, smoothRotY, rotationX, rotationY, trackerVars, loadVars>>

\* the fist branch, but without the reset of smoothRotY
LoopFist_KeepsSmoothRotY ==
    /\ pendingFrames > 0
    /\ state.gesture = "fist"
    /\ autoRotate' = TRUE
    /\ smoothRotX' = 0
    /\ prevPalmX' = Null
    /\ prevPalmY' = Null
    /\ prevPinchDist' = Null
    /\ isGestureActive' = FALSE
    /\ lastCall' = <<"setAutoRotate">>
    /\ lastLoop' = "fist"
    /\ pendingFrames' = pendingFrames - 1 + 1
    /\ snapshot' = IF snapshot = "new" THEN "read" ELSE "reread"
    /\ handLost' = FALSE
    /\ UNCHANGED <<targetX, targetY>>
    /\ noneRun' = 0
    /\ UNCHANGED <<smoothRotY, targetZoom, rotationX, rotationY, activeFrames, trackerVars, loadVars>>

LoopFist ==
    /\ pendingFrames > 0
    /\ state.gesture = "fist"
    /\ autoRotate' = TRUE
    /\ smoothRotX' = 0
    /\ smoothRotY' = 0
    /\ prevPalmX' = Null
    /\ prevPalmY' = Null
    /\ prevPinchDist' = Null
    /\ isGestureActive' = FALSE
    /\ lastCall' = <<"setAutoRotate">>
    /\ lastLoop' = "fist"
    /\ pendingFrames' = pendingFrames - 1 + 1
    /\ snapshot' = IF snapshot = "new" THEN "read" ELSE "reread"
    /\ handLost' = FALSE
    /\ UNCHANGED <<targetX, targetY>>
    /\ noneRun' = 0
    /\ UNCHANGED <<targetZoom, rotationX, rotationY, activeFrames, trackerVars, loadVars>>

\* the none branch, but decaying smoothRotX twice and smoothRotY never
LoopNoneWithin_DecaysXTwice(limit) ==
    /\ pendingFrames > 0
    /\ state.gesture \notin {"open", "pinch", "fist"}
    /\ isGestureActive => noneRun < limit
    /\ IF isGestureActive
       THEN LET newRotX == MulRatio(smoothRotX, 85, 100)
                newRotY == smoothRotY
                settled == Abs(newRotX) < DecayEpsilon /\ Abs(newRotY) < DecayEpsilon
            IN  /\ smoothRotX' = newRotX
                /\ smoothRotY' = newRotY
                /\ autoRotate' = IF settled THEN TRUE ELSE autoRotate
                /\ isGestureActive' = IF settled THEN FALSE ELSE isGestureActive
                /\ lastCall' = IF settled THEN <<"setAutoRotate">> ELSE << >>
       ELSE /\ autoRotate' = TRUE
            /\ lastCall' = <<"setAutoRotate">>
            /\ UNCHANGED <<smoothRotX, smoothRotY, isGestureActive>>
    /\ prevPalmX' = Null
    /\ prevPalmY' = Null
    /\ prevPinchDist' = Null
    /\ lastLoop' = "none"
    /\ pendingFrames' = pendingFrames - 1 + 1
    /\ snapshot' = IF snapshot = "new" THEN "read" ELSE "reread"
    /\ handLost' = FALSE
    /\ UNCHANGED <<targetX, targetY>>
    /\ noneRun' = IF isGestureActive THEN noneRun + 1 ELSE 0
    /\ UNCHANGED <<targetZoom, rotationX, rotationY, activeFrames, trackerVars, loadVars>>

\* the none branch, but keeping the previous pinch distance
LoopNoneWithin_KeepsPinchDist(limit) ==
    /\ pendingFrames > 0
    /\ state.gesture \notin {"open", "pinch", "fist"}
    /\ isGestureActive => noneRun < limit
    /\ IF isGestureActive
       THEN LET newRotX == MulRatio(smoothRotX, 85, 100)
                newRotY == MulRatio(smoothRotY, 85, 100)
                settled == Abs(newRotX) < DecayEpsilon /\ Abs(newRotY) < DecayEpsilon
            IN  /\ smoothRotX' = newRotX
                /\ smoothRotY' = newRotY
                /\ autoRotate' = IF settled THEN TRUE ELSE autoRotate
                /\ isGestureActive' = IF settled THEN FALSE ELSE isGestureActive
                /\ lastCall' = IF settled THEN <<"setAutoRotate">> ELSE << >>
       ELSE /\ autoRotate' = TRUE
            /\ lastCall' = <<"setAutoRotate">>
            /\ UNCHANGED <<smoothRotX, smoothRotY, isGestureActive>>
    /\ prevPalmX' = Null
    /\ prevPalmY' = Null
    /\ UNCHANGED prevPinchDist
    /\ lastLoop' = "none"
    /\ pendingFrames' = pendingFrames - 1 + 1
    /\ snapshot' = IF snapshot = "new" THEN "read" ELSE "reread"
    /\ handLost' = FALSE
    /\ UNCHANGED <<targetX, targetY>>
    /\ noneRun' = IF isGestureActive THEN noneRun + 1 ELSE 0
    /\ UNCHANGED <<targetZoom, rotationX, rotationY, activeFrames, trackerVars, loadVars>>

\* the none branch, but re-enabling auto-rotate from the first decaying frame
LoopNoneWithin_AutoRotatesWhileDecaying(limit) ==
    /\ pendingFrames > 0
    /\ state.gesture \notin {"open", "pinch", "fist"}
    /\ isGestureActive => noneRun < limit
    /\ IF isGestureActive
       THEN LET newRotX == MulRatio(smoothRotX, 85, 100)
                newRotY == MulRatio(smoothRotY, 85, 100)
                settled == Abs(newRotX) < DecayEpsilon /\ Abs(newRotY) < DecayEpsilon
            IN  /\ smoothRotX' = newRotX
                /\ smoothRotY' = newRotY
                /\ autoRotate' = TRUE
                /\ isGestureActive' = IF settled THEN FALSE ELSE isGestureActive
                /\ lastCall' = IF settled THEN <<"setAutoRotate">> ELSE << >>
       ELSE /\ autoRotate' = TRUE
            /\ lastCall' = <<"setAutoRotate">>
            /\ UNCHANGED <<smoothRotX, smoothRotY, isGestureActive>>
    /\ prevPalmX' = Null
    /\ prevPalmY' = Null
    /\ prevPinchDist' = Null
    /\ lastLoop' = "none"
    /\ pendingFrames' = pendingFrames - 1 + 1
    /\ snapshot' = IF snapshot = "new" THEN "read" ELSE "reread"
    /\ handLost' = FALSE
    /\ UNCHANGED <<targetX, targetY>>
    /\ noneRun' = IF isGestureActive THEN noneRun + 1 ELSE 0
    /\ UNCHANGED <<targetZoom, rotationX, rotationY, activeFrames, trackerVars, loadVars>>

\* case 'none' / default, explored for at most `limit` decaying frames in a row
LoopNoneWithin(limit) ==
    /\ pendingFrames > 0
    /\ state.gesture \notin {"open", "pinch", "fist"}
    /\ isGestureActive => noneRun < limit
    /\ IF isGestureActive
       THEN LET newRotX == MulRatio(smoothRotX, 85, 100)
                newRotY == MulRatio(smoothRotY, 85, 100)
                settled == Abs(newRotX) < DecayEpsilon /\ Abs(newRotY) < DecayEpsilon
            IN  /\ smoothRotX' = newRotX
                /\ smoothRotY' = newRotY
                /\ autoRotate' = IF settled THEN TRUE ELSE autoRotate
                /\ isGestureActive' = IF settled THEN FALSE ELSE isGestureActive
                /\ lastCall' = IF settled THEN <<"setAutoRotate">> ELSE << >>
       ELSE /\ autoRotate' = TRUE
            /\ lastCall' = <<"setAutoRotate">>
            /\ UNCHANGED <<smoothRotX, smoothRotY, isGestureActive>>
    /\ prevPalmX' = Null
    /\ prevPalmY' = Null
    /\ prevPinchDist' = Null
    /\ lastLoop' = "none"
    /\ pendingFrames' = pendingFrames - 1 + 1
    /\ snapshot' = IF snapshot = "new" THEN "read" ELSE "reread"
    /\ handLost' = FALSE
    /\ UNCHANGED <<targetX, targetY>>
    /\ noneRun' = IF isGestureActive THEN noneRun + 1 ELSE 0
    /\ UNCHANGED <<targetZoom, rotationX, rotationY, activeFrames, trackerVars, loadVars>>

LoopNone == LoopNoneWithin(MaxNoneRun)

gestureControlLoop == LoopOpen \/ LoopPinch \/ LoopFist \/ LoopNone

\* initHandTracking after `await handTracker.start()`: the first
\* requestAnimationFrame(gestureControlLoop).  start() catches its own
\* errors, so this runs whether or not the camera started.
StartLoop ==
    /\ pendingFrames = 0
    /\ lastLoop = "start"
    /\ pendingFrames' = pendingFrames + 1
    /\ lastCall' = << >>
    /\ UNCHANGED <<trackerVars, motionVars, globeVars, loadVars, lastLoop, noneRun, activeFrames,
                   snapshot, handLost>>

----------------------------------------------------------------------------
\* Initial state: createHandTracker's and createGlobeScene's closures and the
\* module state of main, as constructed; initHandTracking is awaiting
\* handTracker.start() and has not requested the first loop frame yet.

InitMain ==
    /\ state = [gesture |-> "none", palmCenter |-> Null, landmarks |-> Null,
                pinchDistance |-> Scale]
    /\ gestureBuffer = "none"
    /\ gestureCount = 0
    /\ detected = Null
    /\ prevPalmX = Null
    /\ prevPalmY = Null
    /\ isGestureActive = FALSE
    /\ smoothRotX = 0
    /\ smoothRotY = 0
    /\ prevPinchDist = Null
    /\ autoRotate = TRUE
    /\ targetZoom = InitialZoom
    /\ rotationX = 0
    /\ rotationY = 0
    /\ targetX = 0
    /\ targetY = 0
    /\ pendingFrames = 0
    /\ rawLabel = "none"
    /\ rawRun = 0
    /\ lastLoop = "start"
    /\ noneRun = 0
    /\ activeFrames = 0
    /\ lastCall = << >>
    /\ snapshot = "new"
    /\ handLost = FALSE
    /\ camera = "live"
    /\ trace = << >>

\* The four textures have loaded from their first URL, onProgress has been
\* called with 25, 50, 75 and 100, and the timer set by the last call has
\* called initHandTracking; the 10 s timeout has not fired yet.
Init ==
    /\ InitMain
    /\ loads = [t \in Textures |-> loadSucceeded(loadTextureWithFallback)]
    /\ loadedCount = TotalTextures
    /\ progressCompleted = TRUE
    /\ timeoutPending = TRUE
    /\ reported = <<25, 50, 75, 100>>
    /\ initsScheduled = 0
    /\ handTrackerInits = 1

MaxGestureCount == 3   \* largest debouncer count explored

MaxRawRun == 3         \* longest run of equal raw labels explored

\* the debouncer counters stay within the explored range
WithinFrameBounds == gestureCount' <= MaxGestureCount /\ rawRun' <= MaxRawRun

\* the camera feeding results although start() has failed
CameraRunning_IgnoresFailure == camera # "stopped" /\ UNCHANGED <<trace, camera, loadVars>>

\* the camera feeds the landmark model, which calls onResults
CameraRunning == camera = "live" /\ UNCHANGED <<trace, camera, loadVars>>

\* a landmark result without a hand
NoHandFrame == onResults(Null) /\ WithinFrameBounds /\ CameraRunning

----------------------------------------------------------------------------
\* The tracker alone, fed every landmark set of AllHands

ClassifyFrame ==
    \E h \in AllHands : onResults(Some(h)) /\ WithinFrameBounds /\ CameraRunning

NextTracker == ClassifyFrame \/ NoHandFrame

SpecTracker == Init /\ [][NextTracker]_vars

----------------------------------------------------------------------------
\* The tracker and the control loop, interleaved freely: landmark results
\* arrive from the camera pipeline, loop frames from requestAnimationFrame.

LandmarkFrame ==
    \E h \in LoopHands : onResults(Some(h)) /\ WithinFrameBounds /\ CameraRunning

Next ==
    \/ StartLoop
    \/ LandmarkFrame
    \/ NoHandFrame
    \/ LoopOpen
    \/ LoopPinch
    \/ LoopFist
    \/ LoopNone

Spec == Init /\ [][Next]_vars

\* The same program with the browser doing its part: the first frame request
\* is made once start() has settled, and a requested loop frame is eventually
\* run.
SpecLive ==
    /\ Spec
    /\ WF_vars(StartLoop)
    /\ WF_vars(gestureControlLoop)

----------------------------------------------------------------------------
\* The same, with the tracker disposed of at any moment

\* HandTracker.dispose: stops the camera, closes the landmark model and stops
\* the stream's tracks; no result is delivered afterwards, and the Hand State
\* is not touched
dispose ==
    /\ camera # "stopped"
    /\ camera' = "stopped"
    /\ lastCall' = << >>
    /\ UNCHANGED <<state, gestureBuffer, gestureCount, detected, rawLabel, rawRun, trace,
                   loadVars,
                   motionVars, globeVars, loopHist>>

NextDispose == Next \/ dispose

SpecDispose == Init /\ [][NextDispose]_vars

----------------------------------------------------------------------------
\* The same, with start() failing or not

\* HandTracker.start when getUserMedia, video.play or Camera.start rejects:
\* the catch block reports status error and start returns normally.  This
\* happens while initHandTracking awaits start(), before any result.
startFails ==
    /\ camera = "live"
    /\ lastLoop = "start" /\ pendingFrames = 0
    /\ detected = Null /\ rawRun = 0
    /\ camera' = "failed"
    /\ lastCall' = << >>
    /\ UNCHANGED <<state, gestureBuffer, gestureCount, detected, rawLabel, rawRun, trace,
                   loadVars,
                   motionVars, globeVars, loopHist>>

NextStart == Next \/ startFails

SpecStart == Init /\ [][NextStart]_vars

----------------------------------------------------------------------------
\* The decay to idle: an open hand that moves and then leaves the frame, with
\* the none branch followed until the smoothed rotation has settled

MaxDecayRun == 70      \* decaying none loop frames explored in SpecDecay

OpenFrame ==
    \E h \in OpenHands : onResults(Some(h)) /\ WithinFrameBounds /\ CameraRunning

DecayNone == LoopNoneWithin(MaxDecayRun)

NextDecay == StartLoop \/ OpenFrame \/ NoHandFrame \/ LoopOpen \/ DecayNone

SpecDecay == Init /\ [][NextDecay]_vars

----------------------------------------------------------------------------
\* The debouncer alone, from the tracker as constructed: a bounded run of
\* hand-detected frames, with the raw and the confirmed label of each recorded

MaxTrace == 4          \* hand frames recorded

Labels(raw, confirmed) == [raw |-> raw, confirmed |-> confirmed]

RecordedFrame ==
    \E h \in LoopHands :
        /\ Len(trace) < MaxTrace
        /\ onResults(Some(h))
        /\ trace' = Append(trace, Labels(rawLabel', state'.gesture))
        /\ camera = "live" /\ UNCHANGED <<camera, loadVars>>

NextScenario == RecordedFrame

SpecScenario == Init /\ [][NextScenario]_vars

----------------------------------------------------------------------------
\* The controls API alone, called with arbitrary arguments

MaxYaw == 400000       \* largest |rotation.y| explored

Angles == {-200000, -70000, 70000, 200000}

Distances == {-100000, 0, 179999, 180000, 350000, 420000, 800000, 800001, 2000000}

CallRotateX ==
    \E angle \in Angles :
        /\ rotationX' = rotateX(rotationX, angle)
        /\ lastCall' = <<"rotateX">>
        /\ UNCHANGED <<rotationY, autoRotate, targetZoom, targetX, targetY,
                       trackerVars, motionVars, loopHist, loadVars>>

CallRotateY ==
    \E angle \in Angles :
        /\ Abs(rotationY + angle) <= MaxYaw
        /\ rotationY' = rotateY(rotationY, angle)
        /\ lastCall' = <<"rotateY">>
        /\ UNCHANGED <<rotationX, autoRotate, targetZoom, targetX, targetY,
                       trackerVars, motionVars, loopHist, loadVars>>

CallSetZoom ==
    \E distance \in Distances :
        /\ targetZoom' = setZoom(distance)
        /\ lastCall' = <<"setZoom">>
        /\ UNCHANGED <<rotationX, rotationY, autoRotate, targetX, targetY,
                       trackerVars, motionVars, loopHist, loadVars>>

MaxPan == 50000        \* largest |targetX|, |targetY| explored

PanDeltas == {-10000, 10000}

CallMovePosition ==
    \E dx \in PanDeltas, dy \in PanDeltas :
        \E target \in {movePosition(dx, dy)} :
            /\ Abs(target[1]) <= MaxPan /\ Abs(target[2]) <= MaxPan
            /\ targetX' = target[1]
            /\ targetY' = target[2]
            /\ lastCall' = <<"movePosition">>
            /\ UNCHANGED <<rotationX, rotationY, autoRotate, targetZoom,
                           trackerVars, motionVars, loopHist, loadVars>>

CallResetPosition ==
    /\ targetX' = resetPosition[1]
    /\ targetY' = resetPosition[2]
    /\ lastCall' = <<"resetPosition">>
    /\ UNCHANGED <<rotationX, rotationY, autoRotate, targetZoom,
                   trackerVars, motionVars, loopHist, loadVars>>

NextGlobe ==
    \/ CallRotateX
    \/ CallRotateY
    \/ CallSetZoom
    \/ CallMovePosition
    \/ CallResetPosition

SpecGlobe == Init /\ [][NextGlobe]_vars

----------------------------------------------------------------------------
\* Loading: createGlobeScene's texture loads and timeout, and initGlobe's
\* progress callback, interleaved freely

\* the callback initGlobe passes to createGlobeScene: at 100 or more it sets
\* the 600 ms timer that shows the globe and calls initHandTracking
onProgress(pct) ==
    /\ reported' = Append(reported, pct)
    /\ initsScheduled' = initsScheduled + (IF pct >= 100 THEN 1 ELSE 0)

\* trackLoad without the progressCompleted guard
trackLoad_NoCompletedGuard ==
    IF FALSE
    THEN UNCHANGED progressVars
    ELSE LET pct == ((loadedCount + 1) * 100) \div TotalTextures
         IN  /\ loadedCount' = loadedCount + 1
             /\ onProgress(pct)
             /\ progressCompleted' = (pct >= 100)

trackLoad ==
    IF progressCompleted
    THEN UNCHANGED progressVars
    ELSE LET pct == ((loadedCount + 1) * 100) \div TotalTextures
         IN  /\ loadedCount' = loadedCount + 1
             /\ onProgress(pct)
             /\ progressCompleted' = (pct >= 100)

\* one texture's pending load succeeds: onSuccess applies it and calls trackLoad
LoadSucceeds ==
    \E t \in Textures :
        /\ loads[t].inflight # 0
        /\ loads' = [loads EXCEPT ![t] = loadSucceeded(@)]
        /\ trackLoad
        /\ lastCall' = << >>
        /\ UNCHANGED <<timeoutPending, handTrackerInits,
                       trackerVars, motionVars, globeVars, loopHist>>

\* one texture's pending load fails: the next URL is tried, or, with none
\* left, onAllFailed (trackLoad) is called
LoadFails ==
    \E t \in Textures :
        /\ loads[t].inflight # 0
        /\ loads' = [loads EXCEPT ![t] = loadFailed(@)]
        /\ IF loads'[t].onAllFailed > loads[t].onAllFailed
           THEN trackLoad
           ELSE UNCHANGED progressVars
        /\ lastCall' = << >>
        /\ UNCHANGED <<timeoutPending, handTrackerInits,
                       trackerVars, motionVars, globeVars, loopHist>>

\* the 10 s timeout of createGlobeScene
ForceComplete ==
    /\ timeoutPending
    /\ timeoutPending' = FALSE
    /\ IF ~progressCompleted
       THEN /\ progressCompleted' = TRUE
            /\ onProgress(100)
       ELSE UNCHANGED <<progressCompleted, reported, initsScheduled>>
    /\ lastCall' = << >>
    /\ UNCHANGED <<loads, loadedCount, handTrackerInits,
                   trackerVars, motionVars, globeVars, loopHist>>

\* a 600 ms timer of initGlobe fires: initHandTracking creates the tracker,
\* awaits start() and requests the first loop frame
initHandTracking ==
    /\ initsScheduled > 0
    /\ initsScheduled' = initsScheduled - 1
    /\ handTrackerInits' = handTrackerInits + 1
    /\ pendingFrames' = pendingFrames + 1
    /\ lastCall' = << >>
    /\ UNCHANGED <<loads, loadedCount, progressCompleted, timeoutPending, reported,
                   trackerVars, motionVars, globeVars, lastLoop, noneRun, activeFrames,
                   snapshot, handLost>>

\* createGlobeScene has returned: every texture's first URL is loading and
\* the timeout is set; hand tracking has not been initialised
InitLoad ==
    /\ InitMain
    /\ loads = [t \in Textures |-> loadTextureWithFallback]
    /\ loadedCount = 0
    /\ progressCompleted = FALSE
    /\ timeoutPending = TRUE
    /\ reported = << >>
    /\ initsScheduled = 0
    /\ handTrackerInits = 0

NextLoad == LoadSucceeds \/ LoadFails \/ ForceComplete \/ initHandTracking

SpecLoad == InitLoad /\ [][NextLoad]_vars

----------------------------------------------------------------------------
\* Properties of the debouncer (SpecTracker)

\* a landmark frame has just been classified
Classified == detected # Null /\ state.landmarks # Null

\* C1: the confirmed gesture changes only at a frame that ends a run of at
\* least GESTURE_THRESHOLD equal raw labels, a no-hand frame counting as raw
\* label none.
C1_ChangeNeedsRun ==
    [][state'.gesture # state.gesture => rawRun' >= GESTURE_THRESHOLD]_vars

\* C2: none is debounced like any other label: a first no-hand frame leaves a
\* confirmed open, pinch or fist as it is, and the confirmed gesture becomes
\* none only at the end of GESTURE_THRESHOLD consecutive none frames.
C2_NoneIsDebounced ==
    [][ /\ (state.gesture \in {"open", "pinch", "fist"} /\ state'.landmarks = Null
              /\ rawLabel # "none")
           => state'.gesture = state.gesture
        /\ (state.gesture # "none" /\ state'.gesture = "none")
           => (rawLabel' = "none" /\ rawRun' >= GESTURE_THRESHOLD) ]_vars

----------------------------------------------------------------------------
\* Properties of the classifier (SpecTracker)

NonDegenerate == Classified /\ handSizeOf(state.landmarks) >= Scale \div 100

\* C3: at most one of the four fingers extended and the thumb not extended
\* gives fist, whatever the thumb-index distance.
C3_FistWhateverPinch ==
    (NonDegenerate /\ fingersUpOf(state.landmarks) <= 1 /\ ~thumbUpOf(state.landmarks))
        => Val(detected).gesture = "fist"

\* a fist whose thumb and index tips are closer than the pinch limit, with
\* the index finger extended
C3_Witness ==
    /\ NonDegenerate
    /\ fingersUpOf(state.landmarks) = 1 /\ isFingerExtended(state.landmarks, 8, 6)
    /\ ~thumbUpOf(state.landmarks)
    /\ Val(detected).pinchDist < Scale \div 2
    /\ Val(detected).gesture = "fist"

\* C4 as stated: three or more fingers extended gives open.
C4_ThreeFingersOpen ==
    (NonDegenerate /\ fingersUpOf(state.landmarks) >= 3)
        => Val(detected).gesture = "open"

\* the pinch rule, which detectGesture tests before the open rule
PinchRule(landmarks) ==
    /\ normalizedPinchOf(landmarks) < Scale \div 2
    /\ (thumbUpOf(landmarks) \/ isFingerExtended(landmarks, 8, 6))

\* C4 amended: three or more fingers extended gives open unless the pinch
\* rule matches, and then it gives pinch.
C4_ThreeFingersOpenUnlessPinch ==
    (NonDegenerate /\ fingersUpOf(state.landmarks) >= 3)
        => Val(detected).gesture =
               IF PinchRule(state.landmarks) THEN "pinch" ELSE "open"

\* exactly three fingers extended, classified open
C4_Witness ==
    /\ NonDegenerate
    /\ fingersUpOf(state.landmarks) = 3
    /\ Val(detected).gesture = "open"

\* thumb tip on the index tip, index extended, the other three curled
CoincidentPinchPose(landmarks) ==
    /\ Lm(landmarks, 4) = Lm(landmarks, 8)
    /\ isFingerExtended(landmarks, 8, 6)
    /\ ~isFingerExtended(landmarks, 12, 10)
    /\ ~isFingerExtended(landmarks, 16, 14)
    /\ ~isFingerExtended(landmarks, 20, 18)

\* C5 as stated: coincident thumb and index tips with only the index finger
\* extended give pinch.
C5_CoincidentTipsPinch ==
    (NonDegenerate /\ CoincidentPinchPose(state.landmarks))
        => Val(detected).gesture = "pinch"

\* C5 amended: they give pinch when the thumb is extended, and fist when it
\* is not.
C5_CoincidentTipsPinchIfThumbUp ==
    (NonDegenerate /\ CoincidentPinchPose(state.landmarks))
        => Val(detected).gesture =
               IF thumbUpOf(state.landmarks) THEN "pinch" ELSE "fist"

C5_Witness ==
    /\ NonDegenerate
    /\ CoincidentPinchPose(state.landmarks)
    /\ thumbUpOf(state.landmarks)
    /\ Val(detected) = [gesture |-> "pinch", pinchDist |-> 0]

\* C6: a hand size below 0.01 gives gesture none with pinch distance exactly 1.
C6_DegenerateHandIsNone ==
    (Classified /\ handSizeOf(state.landmarks) < Scale \div 100)
        => Val(detected) = [gesture |-> "none", pinchDist |-> Scale]

\* a degenerate hand with all four fingers extended and a hand size above 0
C6_Witness ==
    /\ Classified
    /\ handSizeOf(state.landmarks) \in 1..(Scale \div 100 - 1)
    /\ fingersUpOf(state.landmarks) = 4
    /\ Val(detected) = [gesture |-> "none", pinchDist |-> Scale]

\* the fist rule, which detectGesture tests first
FistRule(landmarks) == fingersUpOf(landmarks) <= 1 /\ ~thumbUpOf(landmarks)

\* the open rule, which detectGesture tests last
OpenRule(landmarks) == fingersUpOf(landmarks) >= 3

\* C19: detectGesture always returns one of the four labels, and on a
\* non-degenerate landmark set it returns the label of the first rule that
\* matches in the order fist, pinch, open: pinch exactly when the fist rule
\* does not match and the pinch rule does, none exactly when no rule matches.
C19_StrictPriority ==
    /\ Classified => Val(detected).gesture \in GestureType
    /\ NonDegenerate =>
         LET gesture == Val(detected).gesture
             fist  == FistRule(state.landmarks)
             pinch == PinchRule(state.landmarks)
             open  == OpenRule(state.landmarks)
         IN  /\ gesture = "fist"  <=> fist
             /\ gesture = "pinch" <=> (~fist /\ pinch)
             /\ gesture = "open"  <=> (~fist /\ ~pinch /\ open)
             /\ gesture = "none"  <=> (~fist /\ ~pinch /\ ~open)

\* a pinch distance of exactly 0.5 with the thumb extended and two fingers up:
\* no rule matches and the label is none
C19_Witness ==
    /\ NonDegenerate
    /\ normalizedPinchOf(state.landmarks) = Scale \div 2
    /\ thumbUpOf(state.landmarks)
    /\ fingersUpOf(state.landmarks) = 2
    /\ Val(detected).gesture = "none"

\* C20: on a hand-detected frame the candidate becomes the raw label; the
\* count is incremented if the raw label was the candidate already and is 1
\* otherwise; the confirmed gesture becomes the candidate if the count has
\* reached GESTURE_THRESHOLD and keeps its value otherwise.
C20_DebounceStep ==
    [][detected' # Null =>
         LET raw == Val(detected').gesture
         IN  /\ gestureBuffer' = raw
             /\ gestureCount' = IF raw = gestureBuffer THEN gestureCount + 1 ELSE 1
             /\ state'.gesture = IF gestureCount' >= GESTURE_THRESHOLD
                                 THEN gestureBuffer'
                                 ELSE state.gesture]_vars

\* the first frame of a new raw label: the count is 1 and the gesture
\* confirmed before, not none, is still the confirmed one
C20_Witness ==
    /\ Classified
    /\ gestureBuffer = Val(detected).gesture
    /\ gestureCount = 1
    /\ state.gesture \notin {"none", gestureBuffer}

----------------------------------------------------------------------------
\* Properties of the control loop (Spec, SpecDecay)

\* the Motion State and the auto-rotate flag as the fist branch leaves them
FistReset ==
    /\ smoothRotX = 0 /\ smoothRotY = 0
    /\ prevPalmX = Null /\ prevPalmY = Null /\ prevPinchDist = Null
    /\ ~isGestureActive
    /\ autoRotate

\* C7: after a fist frame the smoothed rotation is 0, the previous trackers
\* are null, no gesture is active and auto-rotate is on, whatever came before;
\* a further fist frame changes neither the Motion State nor the Scene.
C7_FistResets ==
    /\ [](lastLoop = "fist" => FistReset)
    /\ [][(lastLoop = "fist" /\ lastLoop' = "fist" /\ lastCall' # << >>)
            => UNCHANGED <<motionVars, globeVars>>]_vars

\* a fist frame processed after the globe has been rotated and zoomed
C7_Witness ==
    /\ lastLoop = "fist" /\ lastCall # << >>
    /\ activeFrames >= 3
    /\ rotationY # 0 /\ targetZoom # InitialZoom
    /\ FistReset

\* C8: getZoom is always within [1.8, 8], and is 3.5 until a gesture is
\* processed.
C8_ZoomBounded ==
    /\ MinZoom <= getZoom /\ getZoom <= MaxZoom
    /\ activeFrames = 0 => getZoom = InitialZoom

\* a pinch frame has driven the zoom into its upper limit
C8_Witness ==
    /\ lastLoop = "pinch" /\ lastCall = <<"setAutoRotate", "getZoom", "setZoom">>
    /\ getZoom = MaxZoom

\* number of none frames after which a smoothed rotation of magnitude x is
\* below DecayEpsilon
RECURSIVE DecayFrames(_)
DecayFrames(x) ==
    IF x < DecayEpsilon THEN 0 ELSE 1 + DecayFrames(MulRatio(x, 85, 100))

\* palm coordinates lie in [0, 1], so a rotation target -dx * 5 or dy * 5, and
\* with it the smoothed rotation, has magnitude at most 5
DecayBound == DecayFrames(5 * Scale)

\* C9: while only none frames follow an open-hand gesture, auto-rotate stays
\* off as long as the gesture is active, the gesture stops being active
\* within DecayBound frames, and from then on both smoothed rotations are
\* below 0.0001 in magnitude and auto-rotate is on.
C9_DecaySettles ==
    lastLoop = "none" =>
        IF isGestureActive
        THEN noneRun < DecayBound /\ ~autoRotate
        ELSE /\ autoRotate
             /\ Abs(smoothRotX) < DecayEpsilon /\ Abs(smoothRotY) < DecayEpsilon

\* the smoothed rotation has settled after a decay of 20 frames or more
C9_Witness ==
    /\ lastLoop = "none" /\ ~isGestureActive /\ autoRotate
    /\ noneRun >= 20
    /\ rotationY # 0

----------------------------------------------------------------------------
\* Properties of the controls API (SpecGlobe)

\* C10: the pitch stays within [-pi/2, pi/2] under any rotateX and rotateY
\* calls, and rotateY adds its angle to the yaw as it is.
C10_PitchClamped ==
    /\ [](-HalfPi <= rotationX /\ rotationX <= HalfPi)
    /\ [][lastCall' = <<"rotateY">> => rotationY' - rotationY \in Angles]_vars

\* the pitch sits on its limit while the yaw is beyond pi/2
C10_Witness ==
    /\ rotationX = HalfPi
    /\ rotationY > HalfPi

----------------------------------------------------------------------------
\* What the loop sees of the tracker (Spec)

\* the calls of the last step, as a set
CallsMade(calls) == { calls[i] : i \in DOMAIN calls }

\* the latest result held a hand whose raw label is not pinch, it is the first
\* such frame in a row, and the confirmed gesture is still pinch
UnconfirmedNonPinch ==
    /\ state.gesture = "pinch"
    /\ detected # Null
    /\ Val(detected).gesture # "pinch"
    /\ rawRun = 1

\* C11: while the confirmed gesture is pinch, a single hand-detected frame
\* whose raw label is not pinch causes no setZoom call and no change of the
\* zoom target in the loop frame that follows it.
C11_RawNeverReachesZoom ==
    [][(UnconfirmedNonPinch /\ LoopPinch)
         => (targetZoom' = targetZoom /\ "setZoom" \notin CallsMade(lastCall'))]_vars

\* C13: every loop frame requests exactly one further frame: at most one
\* request is ever pending, one is pending from the first request on, and so
\* one is pending after every frame the loop has run.
C13_LoopReschedules ==
    /\ [](pendingFrames \in {0, 1})
    /\ [](lastLoop # "start" => pendingFrames = 1)
    /\ [][pendingFrames = 1 => pendingFrames' = 1]_vars

\* the loop has run open and pinch frames and then a fist frame, and its next
\* frame is pending
C13_Witness ==
    /\ lastLoop = "fist" /\ lastCall # << >>
    /\ activeFrames >= 2
    /\ targetZoom # InitialZoom
    /\ pendingFrames = 1

\* the Hand State the next loop frame reads is the one the last loop frame read
SameSnapshot == snapshot # "new"

RotationOrZoom == {"rotateX", "rotateY", "setZoom"}

\* C14 as stated: a loop frame that reads a Hand State unchanged since the
\* previous loop frame changes no Motion State variable and issues no rotation
\* or zoom command.
C14_RereadChangesNothing ==
    [][(SameSnapshot /\ gestureControlLoop)
         => /\ UNCHANGED motionVars
            /\ CallsMade(lastCall') \cap RotationOrZoom = {}]_vars

\* C14 amended: such a frame issues no rotation or zoom command, moves neither
\* the globe nor the zoom target and keeps the previous palm and pinch
\* trackers, but it does process the snapshot again: the smoothed rotation
\* decays (by 0.8 in the open branch, by 0.85 in the none branch) and the none
\* branch may clear isGestureActive; pinch and fist frames change nothing.
C14_RereadOnlyDecays ==
    [][(SameSnapshot /\ gestureControlLoop)
         => /\ CallsMade(lastCall') \cap RotationOrZoom = {}
            /\ UNCHANGED <<rotationX, rotationY, targetZoom>>
            /\ UNCHANGED <<prevPalmX, prevPalmY, prevPinchDist>>
            /\ smoothRotX' = IF state.gesture = "open" THEN MulRatio(smoothRotX, 8, 10)
                             ELSE IF state.gesture = "none" /\ isGestureActive
                                  THEN MulRatio(smoothRotX, 85, 100)
                                  ELSE smoothRotX
            /\ smoothRotY' = IF state.gesture = "open" THEN MulRatio(smoothRotY, 8, 10)
                             ELSE IF state.gesture = "none" /\ isGestureActive
                                  THEN MulRatio(smoothRotY, 85, 100)
                                  ELSE smoothRotY
            /\ isGestureActive' # isGestureActive
                 => (state.gesture = "none" /\ isGestureActive)]_vars

\* an open frame has read the same open hand a second time and decayed a
\* smoothed rotation that is still not 0
C14_Witness ==
    /\ snapshot = "reread"
    /\ lastLoop = "open" /\ lastCall = <<"setAutoRotate">>
    /\ state.gesture = "open"
    /\ smoothRotX # 0 /\ smoothRotY # 0


\* C17: the pinch delta is clamped before it is scaled by 15, so that one
\* frame cannot make the zoom jump: no single pinch frame carries the zoom
\* target across its whole range, from one limit to the other.
C17_NoZoomSpike ==
    [][LoopPinch => Abs(targetZoom' - targetZoom) < MaxZoom - MinZoom]_vars

PositionAtOrigin == targetX = 0 /\ targetY = 0

\* the last loop frame followed a moving open hand and rotated the globe
OpenHandMoved ==
    lastLoop = "open" /\ lastCall = <<"setAutoRotate", "rotateY", "rotateX">>

ThumbLandmarks == 2..5

\* the two landmark sets differ at most in the thumb landmarks
SameButThumb(a, b) ==
    \A i \in DOMAIN a : i \notin ThumbLandmarks => a[i] = b[i]

\* C16: fist detection ignores the thumb: a landmark set that differs from
\* the classified one only in the thumb landmarks is a fist exactly when the
\* classified one is.
C16_FistIgnoresThumb ==
    Classified =>
        \A other \in AllHands :
            SameButThumb(other, state.landmarks)
                => ((detectGesture(other).gesture = "fist")
                        <=> (Val(detected).gesture = "fist"))

----------------------------------------------------------------------------
\* Properties of the debouncer over a run of hand frames (SpecScenario)

RawLabels == [i \in DOMAIN trace |-> trace[i].raw]

ConfirmedLabels == [i \in DOMAIN trace |-> trace[i].confirmed]

\* C15: from the initial debounce state a raw label is confirmed at its second
\* frame in a row and not at its first, so raw labels open, open, fist, fist
\* give the confirmed sequence none, open, open, fist.
C15_ConfirmationLagsOneFrame ==
    /\ RawLabels = <<"open", "open", "fist", "fist">>
         => ConfirmedLabels = <<"none", "open", "open", "fist">>
    /\ \A i \in DOMAIN trace :
         trace[i].confirmed =
             IF i = 1 THEN "none"
             ELSE IF trace[i].raw = trace[i - 1].raw THEN trace[i].raw
                  ELSE trace[i - 1].confirmed

\* the four frames of the scenario have been delivered
C15_Witness ==
    /\ RawLabels = <<"open", "open", "fist", "fist">>
    /\ ConfirmedLabels = <<"none", "open", "open", "fist">>
    /\ state.gesture = "fist" /\ gestureCount = 2

----------------------------------------------------------------------------
\* The branches of the loop, frame by frame (Spec)

\* C21: an open-hand frame disables auto-rotate, sets isGestureActive and
\* stores the palm position as previous; with a previous palm position and a
\* move beyond the dead zone it low-pass filters the rotation deltas by 0.4
\* towards -dx * 5 and dy * 5 and calls rotateY and rotateX once each with
\* them; with a previous palm position and a move within the dead zone it
\* multiplies both smoothed values by 0.8 and makes no rotate call.
C21_OpenFrame ==
    [][LoopOpen =>
         LET palm  == state.palmCenter
             had   == prevPalmX # Null /\ prevPalmY # Null
             dx    == palm[1] - Val(prevPalmX)
             dy    == palm[2] - Val(prevPalmY)
             moved == had /\ (Abs(dx) > DeadZone \/ Abs(dy) > DeadZone)
         IN  /\ ~autoRotate' /\ isGestureActive'
             /\ prevPalmX' = Some(palm[1]) /\ prevPalmY' = Some(palm[2])
             /\ IF moved
                THEN /\ smoothRotY' = smoothRotY + MulRatio(-dx * 5 - smoothRotY, 4, 10)
                     /\ smoothRotX' = smoothRotX + MulRatio(dy * 5 - smoothRotX, 4, 10)
                     /\ lastCall' = <<"setAutoRotate", "rotateY", "rotateX">>
                     /\ rotationY' = rotationY + smoothRotY'
                     /\ rotationX' = Max(-HalfPi, Min(HalfPi, rotationX + smoothRotX'))
                ELSE /\ smoothRotY' = IF had THEN MulRatio(smoothRotY, 8, 10) ELSE smoothRotY
                     /\ smoothRotX' = IF had THEN MulRatio(smoothRotX, 8, 10) ELSE smoothRotX
                     /\ CallsMade(lastCall') \cap RotationOrZoom = {}
                     /\ UNCHANGED <<rotationX, rotationY>>]_vars

\* an open frame has followed a palm whose x decreased and whose y increased:
\* the smoothed yaw and pitch are positive and the globe has turned
C21_Witness ==
    /\ OpenHandMoved
    /\ smoothRotY > 0 /\ smoothRotX > 0
    /\ rotationY > 0 /\ rotationX > 0
    /\ prevPalmX = Some(state.palmCenter[1]) /\ prevPalmY = Some(state.palmCenter[2])

\* C22: a pinch frame disables auto-rotate, sets isGestureActive, stores the
\* pinch distance as previous and leaves the smoothed rotation alone; with
\* delta the pinch distance minus the previous one, it calls
\* setZoom(getZoom() + delta * 15) exactly when a previous pinch distance
\* exists and |delta| > 0.005, so spreading never decreases the zoom distance
\* and closing never increases it.
C22_PinchFrame ==
    [][LoopPinch =>
         LET currentPinchDist == state.pinchDistance
             had   == prevPinchDist # Null
             delta == currentPinchDist - Val(prevPinchDist)
             zooms == had /\ Abs(delta) > PinchNoise
         IN  /\ ~autoRotate' /\ isGestureActive'
             /\ ("setZoom" \in CallsMade(lastCall')) <=> zooms
             /\ targetZoom' = IF zooms
                              THEN Max(MinZoom, Min(MaxZoom, targetZoom + delta * 15))
                              ELSE targetZoom
             /\ (had /\ delta > 0) => targetZoom' >= targetZoom
             /\ (had /\ delta < 0) => targetZoom' <= targetZoom
             /\ prevPinchDist' = Some(currentPinchDist)
             /\ UNCHANGED <<smoothRotX, smoothRotY>>]_vars

\* a pinch frame has followed closing fingers and zoomed in
C22_Witness ==
    /\ lastLoop = "pinch" /\ "setZoom" \in CallsMade(lastCall)
    /\ state.gesture = "pinch"
    /\ prevPinchDist = Some(state.pinchDistance)
    /\ targetZoom < InitialZoom
    /\ ~autoRotate /\ isGestureActive

\* C23: setZoom is called only in a pinch frame that directly follows a pinch
\* frame; rotateX and rotateY are called only in an open frame that directly
\* follows an open or a pinch frame; a fist or none frame issues neither a
\* rotation nor a zoom command and leaves every previous tracker null.
C23_ModesIsolated ==
    [][gestureControlLoop =>
         LET calls == CallsMade(lastCall')
         IN  /\ "setZoom" \in calls
                  => (lastLoop' = "pinch" /\ lastLoop = "pinch")
             /\ calls \cap {"rotateX", "rotateY"} # {}
                  => (lastLoop' = "open" /\ lastLoop \in {"open", "pinch"})
             /\ lastLoop' \in {"fist", "none"}
                  => /\ calls \cap RotationOrZoom = {}
                     /\ prevPalmX' = Null /\ prevPalmY' = Null
                     /\ prevPinchDist' = Null]_vars

\* a none frame after the globe has been rotated and zoomed: the gesture is
\* still active, the smoothed rotation is decaying, the trackers are null
C23_Witness ==
    /\ lastLoop = "none" /\ isGestureActive
    /\ activeFrames >= 2
    /\ rotationY # 0 /\ targetZoom # InitialZoom
    /\ prevPalmX = Null /\ prevPalmY = Null /\ prevPinchDist = Null

\* C24: trackers recorded before a period without a hand are never used
\* after it: a loop frame that runs after a result without a hand has arrived
\* since the last loop frame computes no palm delta and no pinch delta, that
\* is, it finds the tracker of its branch null.
C24_CleanBaselineAfterGap ==
    [][(handLost /\ gestureControlLoop) =>
         /\ state.gesture = "open" => (prevPalmX = Null \/ prevPalmY = Null)
         /\ state.gesture = "pinch" => prevPinchDist = Null]_vars

----------------------------------------------------------------------------
\* The tracker disposed of (SpecDispose)

\* C25: once the tracker is disposed of, getState yields gesture none with a
\* null palm center, whatever gesture was confirmed at that moment.
C25_DisposedYieldsNone ==
    camera = "stopped" => (state.gesture = "none" /\ state.palmCenter = Null)

----------------------------------------------------------------------------
\* start() failed (SpecStart)

\* the Hand State as createHandTracker constructs it
InitialHandState ==
    state = [gesture |-> "none", palmCenter |-> Null, landmarks |-> Null,
             pinchDistance |-> Scale]

\* the Motion State as main constructs it
InitialMotionState ==
    /\ prevPalmX = Null /\ prevPalmY = Null /\ prevPinchDist = Null
    /\ smoothRotX = 0 /\ smoothRotY = 0
    /\ ~isGestureActive

\* C26: once start() has failed, the loop still starts and runs; the Hand
\* State stays at gesture none, null palm center and pinch distance 1; every
\* loop frame is a none frame that leaves auto-rotate on, issues no rotation
\* or zoom command and leaves the Motion State at its initial values.
C26_StartFailureIsHarmless ==
    camera = "failed" =>
        /\ InitialHandState
        /\ InitialMotionState
        /\ autoRotate
        /\ lastLoop \in {"start", "none"}
        /\ CallsMade(lastCall) \cap RotationOrZoom = {}
        /\ rotationX = 0 /\ rotationY = 0 /\ targetZoom = InitialZoom
        /\ pendingFrames = 0 => (lastLoop = "start" /\ ENABLED StartLoop)

\* start() has failed and the loop has run two none frames or more
C26_Witness ==
    /\ camera = "failed"
    /\ lastLoop = "none" /\ snapshot = "reread"
    /\ lastCall = <<"setAutoRotate">>
    /\ pendingFrames = 1
    /\ autoRotate /\ InitialHandState /\ InitialMotionState

----------------------------------------------------------------------------
\* The shape of the Hand State (SpecTracker)

\* C27: after any sequence of results the pinch distance is not negative, the
\* palm center is null exactly when the landmarks are null, and whenever they
\* are null the gesture is none and the pinch distance is 1.
C27_HandStateShape ==
    /\ state.pinchDistance >= 0
    /\ (state.palmCenter = Null) <=> (state.landmarks = Null)
    /\ state.landmarks = Null => (state.gesture = "none" /\ state.pinchDistance = Scale)

\* a hand confirmed as open or pinch has just been lost
C27_Witness ==
    /\ detected = Null /\ rawLabel = "none" /\ rawRun = 1
    /\ gestureBuffer \in {"open", "pinch"} /\ gestureCount >= GESTURE_THRESHOLD
    /\ state.landmarks = Null /\ state.palmCenter = Null
    /\ state.gesture = "none" /\ state.pinchDistance = Scale

----------------------------------------------------------------------------
\* Auto-rotate and the gesture flag

\* C28: at every loop frame boundary, the initial state and the decay phase
\* included, the globe auto-rotates exactly when no gesture is active.
C28_AutoRotateMirrorsGesture == autoRotate = ~isGestureActive

\* the decay has just settled and handed the globe back to auto-rotate
C28_Witness ==
    /\ lastLoop = "none" /\ noneRun >= 1
    /\ lastCall = <<"setAutoRotate">>
    /\ ~isGestureActive /\ autoRotate

----------------------------------------------------------------------------
\* Loading (SpecLoad)

\* positions in `reported` of the calls with 100 or more
Completions == {i \in DOMAIN reported : reported[i] >= 100}

\* every texture's load has ended, in onSuccess or in onAllFailed
AllLoadsEnded == \A t \in Textures : loads[t].inflight = 0

\* C29: whatever the order of the four load outcomes and the timeout,
\* onProgress is called with 100 or more exactly once and never again after
\* it, the reported values never decrease, and so hand tracking is
\* initialised once and one loop chain is started.
C29_CompletesOnce ==
    /\ Cardinality(Completions) <= 1
    /\ (~timeoutPending \/ AllLoadsEnded) => Cardinality(Completions) = 1
    /\ \A i \in Completions : i = Len(reported)
    /\ \A i \in 1..(Len(reported) - 1) : reported[i] <= reported[i + 1]
    /\ initsScheduled + handTrackerInits = Cardinality(Completions)
    /\ pendingFrames = handTrackerInits

\* the timeout fired at 50 %, the other two loads ended after it, and hand
\* tracking has been initialised
C29_Witness ==
    /\ ~timeoutPending /\ AllLoadsEnded
    /\ reported = <<25, 50, 100>>
    /\ loadedCount = 2
    /\ handTrackerInits = 1 /\ initsScheduled = 0 /\ pendingFrames = 1

\* C30: each loadTextureWithFallback call tries its URLs in list order,
\* starting a URL only after the one before it has failed; it calls onSuccess
\* at most once, for the first URL that loads; it calls onAllFailed only after
\* every URL has failed; it never calls both.
C30_FallbackInOrder ==
    \A t \in Textures :
        LET l == loads[t]
        IN  /\ l.started = [i \in 1..l.attempt |-> i]
            /\ \A i \in 2..Len(l.started) : l.started[i - 1] \in l.failed
            /\ l.onSuccess <= 1
            /\ l.onSuccess = 1 => (l.attempt \notin l.failed /\ l.failed = 1..(l.attempt - 1))
            /\ l.onAllFailed > 0 => l.failed = 1..UrlCount
            /\ ~(l.onSuccess > 0 /\ l.onAllFailed > 0)

\* one texture loaded from its second URL, another failed on all three
C30_Witness ==
    \E t, u \in Textures :
        /\ loads[t].onSuccess = 1 /\ loads[t].started = <<1, 2>> /\ loads[t].failed = {1}
        /\ loads[u].onAllFailed = 1 /\ loads[u].started = <<1, 2, 3>>
        /\ loads[u].failed = {1, 2, 3} /\ loads[u].onSuccess = 0

====
